---- MODULE Spec2Model ----
(***************************************************************************)
(* cargo-lock2rpmprovides: src/main.rs as a state machine.                 *)
(*                                                                         *)
(* A run reads <workdir>/Cargo.lock, resolves the license of every package *)
(* from <vendordir>/<name>/Cargo.toml, sorts and dedups the licenses, then *)
(* prints one Provides line per package and one License line.              *)
(*                                                                         *)
(* Text is modelled as TLA+ strings (sequences of characters): Len, \o and *)
(* SubSeq act on them as Rust's len, push_str and slicing do on ASCII.     *)
(***************************************************************************)
EXTENDS Naturals, Sequences, FiniteSets, TLC

VARIABLES
    fs,        \* the file system the run sees: lockfile, vendor dir, manifests
    debug,     \* opt.debug
    pc,        \* position of main()
    config,    \* config.package, the parsed lockfile
    checked,   \* what do_license_check returned, per package visited so far
    licenses,  \* the Vec<String> named licenses
    stdout,    \* lines written by println!
    stderr,    \* lines written by eprintln! and by panics
    exit       \* <<>> while running, <<code>> once the process has ended

vars == <<fs, debug, pc, config, checked, licenses, stdout, stderr, exit>>

----------------------------------------------------------------------------
(* Bounds of the model.                                                    *)

MaxPkgs == 2       \* packages in a lockfile of the general family
MaxVerLen == 4     \* length of the enumerated version strings
MaxLicLen == 3     \* length of the enumerated license strings

----------------------------------------------------------------------------
(* Strings.                                                                *)

CharAt(s, i) == SubSeq(s, i, i)

\* s[i..] in Rust's 0-based bytes is From(s, i + 1) here.
From(s, i) == SubSeq(s, i, Len(s))

StartsWith(s, p) == Len(p) <= Len(s) /\ SubSeq(s, 1, Len(p)) = p

\* All strings over the alphabet of length at most n.
RECURSIVE Strings(_, _)
Strings(alphabet, n) ==
    IF n = 0 THEN {""}
    ELSE LET shorter == Strings(alphabet, n - 1)
         IN  shorter \cup {s \o c : s \in shorter, c \in alphabet}

\* Option<String>: None, or Some(v).
None == [some |-> FALSE, val |-> ""]
Some(v) == [some |-> TRUE, val |-> v]

\* The ASCII characters that crate names, versions and SPDX expressions use,
\* as runs of consecutive bytes: <<first byte, characters>>.
AsciiRuns ==
    { <<32, " ">>, <<40, "()">>, <<43, "+">>, <<45, "-./0123456789">>,
      <<65, "ABCDEFGHIJKLMNOPQRSTUVWXYZ">>, <<95, "_">>,
      <<97, "abcdefghijklmnopqrstuvwxyz">> }

\* The byte (u8) of a character.
Byte ==
    [c \in UNION {{CharAt(r[2], i) : i \in 1..Len(r[2])} : r \in AsciiRuns} |->
        LET r == CHOOSE q \in AsciiRuns : \E i \in 1..Len(q[2]) : CharAt(q[2], i) = c
        IN  r[1] + (CHOOSE i \in 1..Len(r[2]) : CharAt(r[2], i) = c) - 1]

\* String's Ord: byte-wise lexicographic, a proper prefix is smaller.
StrLess[a \in STRING, b \in STRING] ==
    IF b = "" THEN FALSE
    ELSE IF a = "" THEN TRUE
    ELSE IF Head(a) = Head(b) THEN StrLess[Tail(a), Tail(b)]
    ELSE Byte[Head(a)] < Byte[Head(b)]

----------------------------------------------------------------------------
(* do_license_check: the normalisation of a license expression.            *)

\* str::replace: every non-overlapping match of from, leftmost first.
Replace[s \in STRING, from \in STRING, to \in STRING] ==
    IF Len(s) < Len(from) THEN s
    ELSE IF StartsWith(s, from)
         THEN to \o Replace[From(s, Len(from) + 1), from, to]
         ELSE Head(s) \o Replace[Tail(s), from, to]

\* str::contains.
Contains(s, p) ==
    \E i \in 1..(Len(s) + 1) :
        i + Len(p) - 1 <= Len(s) /\ SubSeq(s, i, i + Len(p) - 1) = p

\* A variant without the first replace: only the bare "/" is rewritten.
ReplaceBareSlashes(lic) == Replace[lic, "/", " OR "]

\* lic.replace(" / ", " OR ").replace("/", " OR ")
ReplaceSlashes(lic) == Replace[Replace[lic, " / ", " OR "], "/", " OR "]

\* If it contains an operator, we need braces.
AddBraces(lic) ==
    IF Contains(lic, "OR") \/ Contains(lic, "AND")
    THEN "( " \o lic \o " )"
    ELSE lic

\* Some common replacements to avoid duplication.
CommonReplacement(lic) ==
    IF lic = "( MIT OR Apache-2.0 )" THEN "( Apache-2.0 OR MIT )" ELSE lic

\* The (Some(lic), _) arm.
NormaliseLicense(lic) == CommonReplacement(AddBraces(ReplaceSlashes(lic)))

\* A variant that falls back on the license_file name as the license.
LicenseOrFile(cargopkg) ==
    IF cargopkg.license.some
    THEN Some(NormaliseLicense(cargopkg.license.val))
    ELSE cargopkg.license_file

\* The match on (config.package.license, config.package.license_file).
LicenseOf(cargopkg) ==
    IF cargopkg.license.some
    THEN Some(NormaliseLicense(cargopkg.license.val))
    ELSE None

----------------------------------------------------------------------------
(* main: the version written in a Provides line.                           *)

\* pkg.version.char_indices().rev().filter_map(..).collect(): the 0-based
\* indices of the hyphens, the largest first.
HyphensBelow[version \in STRING, n \in Nat] ==
    IF n = 0 THEN <<>>
    ELSE (IF CharAt(version, n) = "-" THEN <<n - 1>> ELSE <<>>)
         \o HyphensBelow[version, n - 1]

\* A variant without .rev(): the indices of the hyphens, the smallest first.
HyphensForward(version) ==
    LET h == HyphensBelow[version, Len(version)]
    IN  [k \in 1..Len(h) |-> h[Len(h) + 1 - k]]

Hyphens(version) == HyphensBelow[version, Len(version)]

\* A variant without hyphens.pop().
PopNothing(v) == v

\* Vec::pop: drops the last element, if there is one.
Pop(v) == IF v = <<>> THEN v ELSE SubSeq(v, 1, Len(v) - 1)

\* A variant with the empty range i..i: the underscore is inserted.
InsertUnderscore(version, i) ==
    SubSeq(version, 1, i) \o "_" \o From(version, i + 1)

\* version.replace_range(i..(i+1), "_")
ReplaceRange(version, i) ==
    SubSeq(version, 1, i) \o "_" \o From(version, i + 2)

\* for i in hyphens.iter() { version.replace_range(..) }
ReplaceAt[version \in STRING, hyphens \in Seq(Nat)] ==
    IF hyphens = <<>> THEN version
    ELSE ReplaceAt[ReplaceRange(version, Head(hyphens)), Tail(hyphens)]

NormaliseVersion(version) == ReplaceAt[version, Pop(Hyphens(version))]

\* A variant that prints pkg.version instead of the rewritten copy.
ProvidesRawVersion(pkg) ==
    "Provides: bundled(crate(" \o pkg.name \o ")) = " \o pkg.version

ProvidesLine(pkg) ==
    "Provides: bundled(crate(" \o pkg.name \o ")) = "
        \o NormaliseVersion(pkg.version)

----------------------------------------------------------------------------
(* main: the aggregate license.                                            *)

\* licenses.sort(): a stable sort by String's Ord.
Insert[sorted \in Seq(STRING), x \in STRING] ==
    IF sorted = <<>> THEN <<x>>
    ELSE IF StrLess[x, Head(sorted)] THEN <<x>> \o sorted
    ELSE <<Head(sorted)>> \o Insert[Tail(sorted), x]

Sort[v \in Seq(STRING)] ==
    IF v = <<>> THEN v ELSE Insert[Sort[SubSeq(v, 1, Len(v) - 1)], v[Len(v)]]

\* licenses.dedup(): drops every element equal to the one before it.
Dedup[v \in Seq(STRING)] ==
    IF Len(v) < 2 THEN v
    ELSE IF v[1] = v[2] THEN Dedup[Tail(v)]
    ELSE <<v[1]>> \o Dedup[Tail(v)]

\* A variant without licenses.dedup().
SortOnly(v) == Sort[v]

\* licenses.sort(); licenses.dedup();
SortDedup(v) == Dedup[Sort[v]]

\* The loop that pushes each license and " AND " onto license.
JoinLicenses[v \in Seq(STRING)] ==
    IF v = <<>> THEN "" ELSE Head(v) \o " AND " \o JoinLicenses[Tail(v)]

LicenseLine(v) == "License: " \o JoinLicenses[v]

----------------------------------------------------------------------------
(* The inputs of a run.                                                    *)

\* opt.workdir and opt.vendordir (its default, path.join("vendor")).
Path == "/build"
Vendordir == Path \o "/vendor"
Lockfile == Path \o "/Cargo.lock"

\* vendordir.join(&pkg.name).join("Cargo.toml")
ManifestPath(name) == Vendordir \o "/" \o name \o "/Cargo.toml"

\* A Pkg of the lockfile; dependencies, source and checksum are None.
Pkg(name, version) == [name |-> name, version |-> version]

\* <vendordir>/<name>/Cargo.toml: absent, a file that cannot be read, a file
\* that is no Cargotoml, or a CargoPkg.
Manifest(state, license, license_file) ==
    [state |-> state, license |-> license, license_file |-> license_file]

NoManifest == Manifest("missing", None, None)
BrokenManifests ==
    {Manifest("unreadable", None, None), Manifest("invalid", None, None)}
CargoPkg(license, license_file) == Manifest("ok", license, license_file)

\* Cargo.lock: absent, a file that cannot be read, a file that is no Config,
\* or a Config with its packages.
LockFile(state, package) == [state |-> state, package |-> package]

FileSystem(lock, vendor, manifest) ==
    [lock |-> lock, vendor |-> vendor, manifest |-> manifest]

SeqsUpTo(S, n) == UNION {[1..k -> S] : k \in 0..n}

\* The general family: every failure of the lockfile, of the vendor directory
\* and of the manifests, over two crates.
GeneralNames == {"a", "b"}
GeneralVersions == {"1.0", "0.1-rc-2"}
GeneralManifests ==
    {NoManifest} \cup BrokenManifests \cup
    { CargoPkg(None, None), CargoPkg(None, Some("LICENSE")),
      CargoPkg(Some("MIT"), None),
      CargoPkg(Some("MIT/Apache-2.0"), Some("LICENSE")) }
GeneralLocks ==
    { LockFile("missing", <<>>), LockFile("unreadable", <<>>),
      LockFile("invalid", <<>>) } \cup
    { LockFile("ok", package) :
        package \in SeqsUpTo({Pkg(n, v) : n \in GeneralNames,
                                          v \in GeneralVersions}, MaxPkgs) }
GeneralFileSystems ==
    { FileSystem(lock, vendor, manifest) :
        lock \in GeneralLocks, vendor \in BOOLEAN,
        manifest \in [GeneralNames -> GeneralManifests] }

\* The aggregate family: three vendored crates with licenses, in every order
\* and multiplicity.
AggregateNames == {"a", "b", "c"}
AggregateLicenses == {"MIT", "MIT-0", "Apache-2.0 / MIT"}
AggregateFileSystems ==
    { FileSystem(LockFile("ok", package), TRUE, manifest) :
        package \in SeqsUpTo({Pkg(n, "1.0") : n \in AggregateNames},
                             MaxPkgs + 1),
        manifest \in [AggregateNames ->
                        {CargoPkg(Some(l), None) : l \in AggregateLicenses}] }

\* The version family: one vendored crate, its version any short string over
\* the characters that matter, or one of the versions the documentation names.
VersionAlphabet == {"1", ".", "-", "_"}
NamedVersions ==
    {"1.2.3", "1.0.0-alpha-1", "1.0.0-beta-2", "0.3.0-alpha.1-x-y-z"}
Versions == Strings(VersionAlphabet, MaxVerLen) \cup NamedVersions
VersionFileSystems ==
    { FileSystem(LockFile("ok", <<Pkg("foo", v)>>), TRUE,
                 [n \in {"foo"} |-> CargoPkg(Some("MIT"), None)]) :
        v \in Versions }

\* The license family: one vendored crate, its license any short string over
\* the characters that matter, or one of the expressions the documentation
\* names.
LicenseAlphabet == {"/", " ", "O", "R", "A", "N", "D"}
NamedLicenses ==
    { "MIT", "BSD-3-Clause", "MIT/Apache-2.0", "MIT / Apache-2.0",
      "MIT OR Apache-2.0", "Apache-2.0 OR MIT", "Apache-2.0/MIT",
      "XOR-style-1.0", "MIT or Apache-2.0", "MIT AND Zlib",
      "( MIT OR Apache-2.0 )", "MIT / Apache-2.0/Zlib", "MIT /Apache-2.0" }
Licenses == Strings(LicenseAlphabet, MaxLicLen) \cup NamedLicenses
LicenseFileSystems ==
    { FileSystem(LockFile("ok", <<Pkg("foo", "1.0.0")>>), TRUE,
                 [n \in {"foo"} |-> CargoPkg(Some(l), None)]) :
        l \in Licenses }

FileSystems ==
    GeneralFileSystems \cup AggregateFileSystems
        \cup VersionFileSystems \cup LicenseFileSystems

----------------------------------------------------------------------------
(* What {:?} prints.                                                       *)

DebugStr(s) == "\"" \o s \o "\""

DebugOption(o) == IF o.some THEN "Some(" \o DebugStr(o.val) \o ")" ELSE "None"

DebugPkg(pkg) ==
    "Pkg { name: " \o DebugStr(pkg.name) \o ", version: "
        \o DebugStr(pkg.version)
        \o ", dependencies: None, source: None, checksum: None }"

DebugCargotoml(cargopkg) ==
    "Cargotoml { package: CargoPkg { license: "
        \o DebugOption(cargopkg.license) \o ", license_file: "
        \o DebugOption(cargopkg.license_file) \o " } }"

DebugItems[v \in Seq(Nat)] ==
    IF v = <<>> THEN ""
    ELSE ToString(Head(v))
         \o (IF Len(v) > 1 THEN ", " ELSE "") \o DebugItems[Tail(v)]

DebugVec(v) == "[" \o DebugItems[v] \o "]"

\* if debug { eprintln!(..) }
IfDebug(lines) == IF debug THEN lines ELSE <<>>

----------------------------------------------------------------------------
(* The run.                                                                *)

Init ==
    /\ fs \in FileSystems
    /\ debug \in BOOLEAN
    /\ pc = "start"
    /\ config = <<>>
    /\ checked = <<>>
    /\ licenses = <<>>
    /\ stdout = <<>>
    /\ stderr = <<>>
    /\ exit = <<>>

\* A failed expect(): the message goes to stderr and the process ends with
\* the status of a panic.
Panic(lines, message) ==
    /\ stderr' = stderr \o lines \o <<message>>
    /\ exit' = <<101>>
    /\ pc' = "panicked"

StartupLines ==
    IfDebug(<< "DEBUG -> working dir " \o DebugStr(Path),
               "DEBUG -> vendor dir " \o DebugStr(Vendordir) >>)

\* lockfile.exists()
LockfileExists == fs.lock.state # "missing"

\* std::fs::read(lockfile) succeeds.
LockfileReads == fs.lock.state # "unreadable"

\* A variant that takes an empty Config for a lockfile that does not parse.
LockfileParsesLeniently == TRUE

\* toml::from_slice(&buffer) yields a Config.
LockfileParses == fs.lock.state = "ok"

\* A variant without the vendordir.exists() test.
VendordirAssumed == TRUE

\* vendordir.exists()
VendordirExists == fs.vendor

\* !lockfile.exists(): a diagnostic, then std::process::exit(1).
LockfileNotFound ==
    /\ pc = "start"
    /\ ~LockfileExists
    /\ stderr' = stderr \o StartupLines
                    \o <<"lockfile " \o DebugStr(Lockfile) \o " not found">>
    /\ exit' = <<1>>
    /\ pc' = "exited"
    /\ UNCHANGED <<fs, debug, config, checked, licenses, stdout>>

LockfileFound ==
    /\ pc = "start"
    /\ LockfileExists
    /\ stderr' = stderr \o StartupLines
                    \o IfDebug(<<"DEBUG -> found " \o DebugStr(Lockfile)>>)
    /\ pc' = "read"
    /\ UNCHANGED <<fs, debug, config, checked, licenses, stdout, exit>>

\* std::fs::read(lockfile) fails.
LockfileUnreadable ==
    /\ pc = "read"
    /\ ~LockfileReads
    /\ Panic(<<>>, "Unable to open lockfile for reading!")
    /\ UNCHANGED <<fs, debug, config, checked, licenses, stdout>>

\* toml::from_slice(&buffer) fails.
LockfileInvalid ==
    /\ pc = "read"
    /\ LockfileReads
    /\ ~LockfileParses
    /\ Panic(<<>>, "Unable to parse lockfile, invalid toml!")
    /\ UNCHANGED <<fs, debug, config, checked, licenses, stdout>>

LockfileParsed ==
    /\ pc = "read"
    /\ LockfileReads
    /\ LockfileParses
    /\ config' = fs.lock.package
    /\ pc' = "vendor"
    /\ UNCHANGED <<fs, debug, checked, licenses, stdout, stderr, exit>>

\* !vendordir.exists(): a diagnostic and Vec::new().
VendordirNotFound ==
    /\ pc = "vendor"
    /\ ~VendordirExists
    /\ stderr' = Append(stderr,
                    "ERROR could not find vendordir - " \o DebugStr(Vendordir))
    /\ licenses' = <<>>
    /\ pc' = "sort"
    /\ UNCHANGED <<fs, debug, config, checked, stdout, exit>>

\* vendordir.exists(): the filter_map over config.package starts.
VendordirFound ==
    /\ pc = "vendor"
    /\ VendordirExists
    /\ stderr' = stderr \o IfDebug(<<"DEBUG -> found " \o DebugStr(Vendordir)>>)
    /\ pc' = IF config = <<>> THEN "sort" ELSE "check"
    /\ UNCHANGED <<fs, debug, config, checked, licenses, stdout, exit>>

----------------------------------------------------------------------------
(* do_license_check, called by the filter_map for one package at a time.   *)

\* The package the filter_map is at: one call was made per entry of checked.
Visiting == config[Len(checked) + 1]

VisitedManifest == fs.manifest[Visiting.name]

\* name.exists()
ManifestExists(manifest) == manifest.state # "missing"

\* std::fs::read(&name) succeeds.
ManifestReads(manifest) == manifest.state # "unreadable"

\* A variant that takes an empty CargoPkg for a manifest that does not parse.
ManifestParsesLeniently(manifest) == TRUE

\* toml::from_slice(&buffer) yields a Cargotoml.
ManifestParses(manifest) == manifest.state = "ok"

CheckingLines ==
    IfDebug(<<"checking license in ... "
                \o DebugStr(ManifestPath(Visiting.name))>>)

ParsedLines ==
    CheckingLines \o IfDebug(<<"Parsed config - "
                                \o DebugCargotoml(VisitedManifest)>>)

\* do_license_check returns: filter_map keeps a Some and drops a None, and
\* collect() ends after the last package.
Return(result, lines) ==
    /\ checked' = Append(checked, result)
    /\ licenses' = IF result.some THEN Append(licenses, result.val)
                   ELSE licenses
    /\ stderr' = stderr \o lines
    /\ pc' = IF Len(checked) + 1 = Len(config) THEN "sort" ELSE "check"
    /\ UNCHANGED <<fs, debug, config, stdout, exit>>

ManifestNotFound ==
    /\ pc = "check"
    /\ ~ManifestExists(VisitedManifest)
    /\ Return(None,
              CheckingLines \o
              <<"Unable to check license from "
                  \o DebugStr(ManifestPath(Visiting.name))
                  \o ". You may need to check this manually">>)

ManifestUnreadable ==
    /\ pc = "check"
    /\ ManifestExists(VisitedManifest)
    /\ ~ManifestReads(VisitedManifest)
    /\ Panic(CheckingLines, "Unable to open cargo.toml for reading!")
    /\ UNCHANGED <<fs, debug, config, checked, licenses, stdout>>

ManifestInvalid ==
    /\ pc = "check"
    /\ ManifestExists(VisitedManifest)
    /\ ManifestReads(VisitedManifest)
    /\ ~ManifestParses(VisitedManifest)
    /\ Panic(CheckingLines, "Unable to parse cargo.toml, invalid!")
    /\ UNCHANGED <<fs, debug, config, checked, licenses, stdout>>

ManifestParsed ==
    /\ pc = "check"
    /\ ManifestExists(VisitedManifest)
    /\ ManifestReads(VisitedManifest)
    /\ ManifestParses(VisitedManifest)

\* (Some(lic), _)
LicenseFound ==
    /\ ManifestParsed
    /\ VisitedManifest.license.some
    /\ Return(LicenseOf(VisitedManifest), ParsedLines)

\* (None, Some(fname))
LicenseFileOnly ==
    /\ ManifestParsed
    /\ ~VisitedManifest.license.some
    /\ VisitedManifest.license_file.some
    /\ Return(LicenseOf(VisitedManifest),
              ParsedLines \o
              <<"Unable to find license in "
                  \o DebugStr(ManifestPath(Visiting.name))
                  \o ". You may need to check "
                  \o DebugStr(Vendordir \o "/" \o Visiting.name \o "/"
                                \o VisitedManifest.license_file.val)
                  \o " for details.">>)

\* (None, None)
LicenseUndetermined ==
    /\ ManifestParsed
    /\ ~VisitedManifest.license.some
    /\ ~VisitedManifest.license_file.some
    /\ Return(LicenseOf(VisitedManifest),
              ParsedLines \o
              <<"Unable to determine license for "
                  \o DebugStr(ManifestPath(Visiting.name))
                  \o ". You must manually investigate!">>)

----------------------------------------------------------------------------
(* main: the output.                                                       *)

\* licenses.sort(); licenses.dedup(); then the debug listing of the packages.
SortLicenses ==
    /\ pc = "sort"
    /\ licenses' = SortDedup(licenses)
    /\ stderr' = stderr \o
                 IfDebug([k \in 1..Len(config) |->
                            "DEBUG -> pkg -> " \o DebugPkg(config[k])])
    /\ pc' = "provides"
    /\ UNCHANGED <<fs, debug, config, checked, stdout, exit>>

\* One turn of for pkg in &config.package: so far this loop alone has
\* written to stdout, one line per turn.
PrintProvides ==
    /\ pc = "provides"
    /\ Len(stdout) < Len(config)
    /\ LET pkg == config[Len(stdout) + 1]
       IN  /\ stderr' = stderr \o
                        IfDebug(<<"hypens -> "
                                    \o DebugVec(Hyphens(pkg.version))>>)
           /\ stdout' = Append(stdout, ProvidesLine(pkg))
    /\ UNCHANGED <<fs, debug, pc, config, checked, licenses, exit>>

\* After the loop: the License line, and main returns. (The emoji that ends
\* the debug line is left out.)
PrintLicense ==
    /\ pc = "provides"
    /\ Len(stdout) = Len(config)
    /\ stdout' = Append(stdout, LicenseLine(licenses))
    /\ stderr' = stderr \o IfDebug(<<"DEBUG -> Success!">>)
    /\ exit' = <<0>>
    /\ pc' = "done"
    /\ UNCHANGED <<fs, debug, config, checked, licenses>>

Next ==
    \/ LockfileNotFound
    \/ LockfileFound
    \/ LockfileUnreadable
    \/ LockfileInvalid
    \/ LockfileParsed
    \/ VendordirNotFound
    \/ VendordirFound
    \/ ManifestNotFound
    \/ ManifestUnreadable
    \/ ManifestInvalid
    \/ LicenseFound
    \/ LicenseFileOnly
    \/ LicenseUndetermined
    \/ SortLicenses
    \/ PrintProvides
    \/ PrintLicense

Spec == Init /\ [][Next]_vars

----------------------------------------------------------------------------
(* Vocabulary of the properties.                                           *)

Running == exit = <<>>

\* A run that has not ended can take a step: it never hangs.
Progress == Running => ENABLED Next

LockfileOk == fs.lock.state = "ok"

\* The Provides lines written so far, by position in the lockfile.
Provided == 1..(IF Len(stdout) < Len(config) THEN Len(stdout) ELSE Len(config))

\* The text after " = " in the k-th line of stdout.
PrintedVersion(k) ==
    From(stdout[k],
         Len("Provides: bundled(crate(" \o config[k].name \o ")) = ") + 1)

HyphenIndices(s) == {i \in 1..Len(s) : CharAt(s, i) = "-"}

FirstHyphen(s) ==
    CHOOSE i \in HyphenIndices(s) : \A j \in HyphenIndices(s) : i <= j

LastHyphen(s) ==
    CHOOSE i \in HyphenIndices(s) : \A j \in HyphenIndices(s) : j <= i

\* out is v with the hyphen at index kept, every other hyphen turned into an
\* underscore, and nothing else changed.
KeepsOnly(v, out, kept) ==
    /\ Len(out) = Len(v)
    /\ \A i \in 1..Len(v) :
        CharAt(out, i) = IF i \in HyphenIndices(v) /\ i # kept THEN "_"
                         ELSE CharAt(v, i)
    /\ Cardinality({i \in 1..Len(v) : CharAt(out, i) # CharAt(v, i)})
        = Cardinality(HyphenIndices(v)) - 1

----------------------------------------------------------------------------
(* C1, as stated: of a version with more than one hyphen, the rightmost    *)
(* hyphen is the one that stays ("1.0.0-alpha-1" is printed as             *)
(* "1.0.0_alpha-1", "1.0.0-beta-2" as "1.0.0_beta-2"), the other hyphens   *)
(* become underscores and nothing else changes.                            *)
C1_RightmostHyphenKept ==
    \A k \in Provided :
        LET v == config[k].version
        IN  Cardinality(HyphenIndices(v)) > 1 =>
                /\ KeepsOnly(v, PrintedVersion(k), LastHyphen(v))
                /\ v = "1.0.0-alpha-1" => PrintedVersion(k) = "1.0.0_alpha-1"
                /\ v = "1.0.0-beta-2" => PrintedVersion(k) = "1.0.0_beta-2"

(* C1, amended: of a version with N > 1 hyphens, exactly N - 1 hyphens are *)
(* replaced by underscores and the leftmost hyphen is the one that stays   *)
(* ("1.0.0-alpha-1" is printed as "1.0.0-alpha_1", "1.0.0-beta-2" as       *)
(* "1.0.0-beta_2"); all other characters and the length are unchanged.     *)
C1_LeftmostHyphenKept ==
    \A k \in Provided :
        LET v == config[k].version
        IN  Cardinality(HyphenIndices(v)) > 1 =>
                /\ KeepsOnly(v, PrintedVersion(k), FirstHyphen(v))
                /\ v = "1.0.0-alpha-1" => PrintedVersion(k) = "1.0.0-alpha_1"
                /\ v = "1.0.0-beta-2" => PrintedVersion(k) = "1.0.0-beta_2"

\* A version with three hyphens, none of them adjacent, has been printed.
C1_Witness ==
    \E k \in Provided :
        /\ config[k].version = "0.3.0-alpha.1-x-y-z"
        /\ PrintedVersion(k) = "0.3.0-alpha.1_x_y_z"

(* C2: a version with no hyphen or exactly one hyphen (the empty string    *)
(* and "-" included) is printed in its Provides line as it is.             *)
C2_AtMostOneHyphenUnchanged ==
    \A k \in Provided :
        LET v == config[k].version
        IN  Cardinality(HyphenIndices(v)) <= 1 => PrintedVersion(k) = v

\* The version that is only a hyphen has been printed.
C2_Witness ==
    \E k \in Provided : config[k].version = "-" /\ PrintedVersion(k) = "-"

(* C3: the first hyphen of a version is the one kept: the printed version  *)
(* has at most one hyphen, at the index of the input's first hyphen, and   *)
(* an underscore wherever the input has a later hyphen.                    *)
C3_FirstHyphenKept ==
    \A k \in Provided :
        LET v == config[k].version
            out == PrintedVersion(k)
        IN  /\ Cardinality(HyphenIndices(out)) <= 1
            /\ HyphenIndices(out) =
                 IF HyphenIndices(v) = {} THEN {} ELSE {FirstHyphen(v)}
            /\ \A i \in HyphenIndices(v) \ HyphenIndices(out) :
                 CharAt(out, i) = "_"

\* A version whose first two characters are hyphens has been printed.
C3_Witness ==
    \E k \in Provided :
        /\ config[k].version = "--1-"
        /\ PrintedVersion(k) = "-_1_"

----------------------------------------------------------------------------
(* The reference the license and output properties are stated against.     *)

\* One pass from the left: " / " and any other "/" each become " OR ".
RefSlashes[s \in STRING] ==
    IF s = "" THEN ""
    ELSE IF StartsWith(s, " / ") THEN " OR " \o RefSlashes[From(s, 4)]
    ELSE IF Head(s) = "/" THEN " OR " \o RefSlashes[Tail(s)]
    ELSE Head(s) \o RefSlashes[Tail(s)]

RefHasOperator(s) ==
    \/ \E i \in 1..Len(s) :
        i + 1 <= Len(s) /\ CharAt(s, i) = "O" /\ CharAt(s, i + 1) = "R"
    \/ \E i \in 1..Len(s) :
        /\ i + 2 <= Len(s)
        /\ CharAt(s, i) = "A" /\ CharAt(s, i + 1) = "N" /\ CharAt(s, i + 2) = "D"

RefLicense(license) ==
    LET s == RefSlashes[license]
        wrapped == IF RefHasOperator(s) THEN "( " \o s \o " )" ELSE s
    IN  IF wrapped = "( MIT OR Apache-2.0 )" THEN "( Apache-2.0 OR MIT )"
        ELSE wrapped

\* The manifest of the k-th package of the lockfile.
ManifestOf(k) == fs.manifest[config[k].name]

HasLicense(k) == ManifestOf(k).state = "ok" /\ ManifestOf(k).license.some

Broken(k) == ManifestOf(k).state \in {"unreadable", "invalid"}

\* The licenses among the results, in the order of the results.
RECURSIVE Kept(_)
Kept(results) ==
    IF results = <<>> THEN <<>>
    ELSE (IF Head(results).some THEN <<Head(results).val>> ELSE <<>>)
         \o Kept(Tail(results))

Range(v) == {v[k] : k \in 1..Len(v)}

\* Each license of the set followed by " AND ", the smallest first.
RECURSIVE RefJoin(_)
RefJoin(S) ==
    IF S = {} THEN ""
    ELSE LET least == CHOOSE l \in S : \A o \in S \ {l} : StrLess[l, o]
         IN  least \o " AND " \o RefJoin(S \ {least})

\* The licenses the packages of the lockfile resolve to.
ResolvedLicenses ==
    IF fs.vendor
    THEN {RefLicense(ManifestOf(k).license.val) :
            k \in {j \in 1..Len(config) : HasLicense(j)}}
    ELSE {}

\* The version with every hyphen after its first turned into an underscore.
RefVersion(v) ==
    [i \in 1..Len(v) |->
        IF CharAt(v, i) = "-" /\ \E j \in 1..(i - 1) : CharAt(v, j) = "-"
        THEN "_" ELSE CharAt(v, i)]

RECURSIVE Concat(_)
Concat(chars) == IF chars = <<>> THEN "" ELSE Head(chars) \o Concat(Tail(chars))

RefProvides(k) ==
    "Provides: bundled(crate(" \o config[k].name \o ")) = "
        \o Concat(RefVersion(config[k].version))

RefProvidesLines == [k \in 1..Len(config) |-> RefProvides(k)]

----------------------------------------------------------------------------
(* C4: the license a manifest's license expression resolves to is the      *)
(* reference's: " / " and then "/" become " OR "; a result containing "OR" *)
(* or "AND" anywhere is wrapped in "( " and " )"; "( MIT OR Apache-2.0 )"  *)
(* becomes "( Apache-2.0 OR MIT )". Every expression resolves to a string: *)
(* the normaliser never ends the run.                                      *)
C4_LicenseNormalised ==
    /\ \A k \in 1..Len(checked) :
        HasLicense(k) =>
            LET l == ManifestOf(k).license.val
                out == checked[k].val
            IN  /\ checked[k] = Some(RefLicense(l))
                /\ l \in {"MIT/Apache-2.0", "MIT / Apache-2.0",
                          "MIT OR Apache-2.0"}
                     => out = "( Apache-2.0 OR MIT )"
                /\ l \in {"MIT", "BSD-3-Clause"} => out = l
                /\ l = "XOR-style-1.0" => out = "( XOR-style-1.0 )"
                /\ l = "MIT or Apache-2.0" => out = l
    /\ pc = "panicked" /\ LockfileOk => ~HasLicense(Len(checked) + 1)

\* The expression with both kinds of slash has been resolved.
C4_Witness ==
    \E k \in 1..Len(checked) :
        /\ HasLicense(k)
        /\ ManifestOf(k).license.val = "MIT / Apache-2.0/Zlib"
        /\ checked[k].val = "( MIT OR Apache-2.0 OR Zlib )"

(* C5: with a vendor directory, do_license_check returns None for a        *)
(* package without a manifest or whose manifest has no license (with or    *)
(* without license_file), and the normalised license whenever the manifest *)
(* has one. A None never ends the run: the next package is visited, the    *)
(* licenses are exactly the Some results, and a completed run has a        *)
(* Provides line for every package.                                        *)
C5_LicenseResolver ==
    fs.vendor =>
        /\ \A k \in 1..Len(checked) :
            /\ ~Broken(k)
            /\ checked[k] = IF HasLicense(k)
                            THEN Some(RefLicense(ManifestOf(k).license.val))
                            ELSE None
        /\ pc = "check" => licenses = Kept(checked)
        /\ pc = "check" /\ checked # <<>> /\ ~checked[Len(checked)].some
            => Progress
        /\ pc = "panicked" /\ LockfileOk => Broken(Len(checked) + 1)
        /\ pc \in {"sort", "provides", "done"} =>
            /\ Len(checked) = Len(config)
            /\ Range(licenses) = Range(Kept(checked))
        /\ pc = "done" => \A k \in 1..Len(config) : stdout[k] = RefProvides(k)

\* A completed run whose first package had no manifest and whose second had
\* both a license and a license_file.
C5_Witness ==
    /\ pc = "done"
    /\ fs.vendor
    /\ Len(config) = 2
    /\ ManifestOf(1).state = "missing"
    /\ ManifestOf(2).license.some /\ ManifestOf(2).license_file.some
    /\ checked = <<None, Some("( Apache-2.0 OR MIT )")>>
    /\ licenses = <<"( Apache-2.0 OR MIT )">>
    /\ Len(stdout) = 3

(* C6: the last line of a completed run is "License: " followed by each    *)
(* distinct resolved license and " AND ", in ascending byte order: every   *)
(* license once however many packages resolve to it (two packages with     *)
(* "MIT" give "License: MIT AND "), the same line for every order of the   *)
(* packages (it is a function of the set of licenses), and "License: "     *)
(* alone when nothing resolved.                                            *)
C6_AggregateLicenseLine ==
    pc = "done" =>
        LET line == stdout[Len(stdout)]
        IN  /\ line = "License: " \o RefJoin(ResolvedLicenses)
            /\ ResolvedLicenses = {"MIT"} => line = "License: MIT AND "
            /\ ResolvedLicenses = {} => line = "License: "

\* A completed run of three packages, two of them with the same license and
\* resolved out of order.
C6_Witness ==
    /\ pc = "done"
    /\ checked = <<Some("MIT-0"), Some("MIT"), Some("MIT-0")>>
    /\ stdout[Len(stdout)] = "License: MIT AND MIT-0 AND "

(* C7: stdout is always a prefix of: the Provides line of each package in  *)
(* lockfile order, then one License line. A completed run has written all  *)
(* of it, a run still printing has written no License line, and an empty   *)
(* lockfile gives the License line alone.                                  *)
C7_StdoutShape ==
    /\ Len(stdout) <= Len(config) + 1
    /\ \A k \in 1..Len(stdout) :
        IF k <= Len(config) THEN stdout[k] = RefProvidesLines[k]
        ELSE StartsWith(stdout[k], "License: ")
    /\ pc = "done" <=> Len(stdout) = Len(config) + 1
    /\ pc = "done" /\ config = <<>> =>
        Len(stdout) = 1 /\ StartsWith(stdout[1], "License: ")

\* A completed run over the same crate twice, in two versions.
C7_Witness ==
    /\ pc = "done"
    /\ Len(config) = 2
    /\ config[1].name = config[2].name
    /\ stdout[1] = "Provides: bundled(crate(a)) = 0.1-rc_2"
    /\ stdout[2] = "Provides: bundled(crate(a)) = 1.0"
    /\ Len(stdout) = 3

(* C8: without a lockfile the run ends with status 1 after a diagnostic    *)
(* naming the path; with a lockfile that cannot be read or is no package   *)
(* list it ends with a non-zero status. Either way nothing is written to   *)
(* stdout and no license is resolved.                                      *)
C8_LockfileFailures ==
    ~LockfileOk =>
        /\ stdout = <<>>
        /\ checked = <<>>
        /\ licenses = <<>>
        /\ config = <<>>
        /\ Progress
        /\ ~Running =>
            /\ exit # <<0>>
            /\ fs.lock.state = "missing" =>
                /\ exit = <<1>>
                /\ stderr[Len(stderr)]
                     = "lockfile \"/build/Cargo.lock\" not found"

\* A run without a lockfile has ended, over a vendor directory.
C8_Witness ==
    /\ fs.lock.state = "missing"
    /\ fs.vendor
    /\ exit = <<1>>

(* C9: with a vendor directory, if the manifest of any package exists but  *)
(* cannot be read or parsed, the run ends abnormally and stdout stays      *)
(* empty: every license is resolved before the first Provides line.        *)
C9_BrokenManifestAborts ==
    /\ fs.vendor /\ stdout # <<>> => Len(checked) = Len(config)
    /\ LockfileOk /\ fs.vendor
        /\ (\E k \in 1..Len(fs.lock.package) :
                fs.manifest[fs.lock.package[k].name].state
                    \in {"unreadable", "invalid"})
        => /\ stdout = <<>>
           /\ pc \notin {"sort", "provides", "done"}
           /\ Progress
           /\ ~Running => exit = <<101>>

\* The run has ended on the broken manifest of its second package, after it
\* resolved the license of the first.
C9_Witness ==
    /\ pc = "panicked"
    /\ Len(config) = 2
    /\ Len(checked) = 1 /\ checked[1].some
    /\ Broken(2)
    /\ stdout = <<>>

(* C10: with a lockfile and no vendor directory no manifest is looked up,  *)
(* so none can end the run; no license is resolved, every package gets its *)
(* Provides line in lockfile order, the License line is "License: " and    *)
(* the run ends with status 0.                                             *)
C10_NoVendordir ==
    LockfileOk /\ ~fs.vendor =>
        /\ checked = <<>>
        /\ licenses = <<>>
        /\ pc # "panicked"
        /\ Progress
        /\ ~Running =>
            /\ exit = <<0>>
            /\ stdout = RefProvidesLines \o <<"License: ">>

\* A run without a vendor directory has completed, although the manifest of
\* one of its two packages is described as broken.
C10_Witness ==
    /\ pc = "done"
    /\ ~fs.vendor
    /\ Len(config) = 2
    /\ \E k \in 1..2 : Broken(k)
    /\ Len(stdout) = 3

====
